---- MODULE Spec2Model ----
(***************************************************************************)
(* Model of the Fronius Modbus hub (custom_components/fronius_modbus).     *)
(*                                                                         *)
(* Threads:                                                                *)
(*   - the event loop, which runs async_add_hub_entity,                    *)
(*     async_remove_hub_entity, the interval timer, the continuation of    *)
(*     async_refresh_modbus_data (the subscriber callbacks) and the        *)
(*     commanded mode changes (select.py calls hub.set_*_mode directly);   *)
(*   - executor jobs, each running one _refresh_modbus_data cycle.         *)
(* The Modbus client sits behind self._lock; a client operation is split   *)
(* into acquiring the lock (the operation is then in flight) and           *)
(* completing it (which releases the lock).                                *)
(***************************************************************************)
EXTENDS Integers, Sequences, FiniteSets, TLC

\* Bounds of the model.
MaxMeters == 1      \* configured meter unit ids: 0..MaxMeters
MaxSubs == 2        \* distinct callbacks, and the longest subscriber list
MaxJobs == 2        \* refresh jobs that may be queued or running at once

Jobs == 1..MaxJobs
Callbacks == 1..MaxSubs

VARIABLES
    phase,              \* "constructed" | "ready" | "failed": progress of init_data
    meters,             \* Len(self._meter_unit_ids)
    meter_configured,   \* self.meter_configured
    mppt_configured,    \* self.mppt_configured
    storage_configured, \* self.storage_configured
    entities,           \* self._entities, a list of callbacks
    timers,             \* live interval timers registered with the scheduler
    unsub,              \* self._unsub_interval_method is not None
    lock,               \* self._lock: <<>> when free, <<t>> when held by thread t
    connected,          \* self._client.connected
    data,               \* self.data: the key groups present in the store
    loop,               \* what the event loop is doing
    job,                \* job[j]: the state of refresh job j
    called,             \* callbacks invoked by the notification being delivered
    lastSkip,           \* history: the last completed cycle failed its reconnect
    released,           \* history: close() has returned after the last removal, and
                        \* since then no subscriber was added and no command issued
    sto,                \* self.data restricted to the storage state: a function
                        \* from the keys present to their values
    storage_extended_control_mode,  \* self.storage_extended_control_mode
    dev,                \* the storage registers of the device
    wlog,               \* the register writes of the operation that ran last
    op,                 \* history: the operation that ran last, and what it did
    call                \* the hub method called last: its name, its arguments,
                        \* the step it is at (0 once it has returned) and how
                        \* it ended

vars == <<phase, meters, meter_configured, mppt_configured, storage_configured,
          entities, timers, unsub, lock, connected, data, loop, job, called,
          lastSkip, released, sto, storage_extended_control_mode, dev, wlog, op,
          call>>

config == <<phase, meters, meter_configured, mppt_configured, storage_configured>>
subs == <<entities, timers, unsub>>
hist == <<lastSkip, released>>
stor == <<sto, storage_extended_control_mode, dev, wlog, op, call>>

\* The event loop is thread 0, job j is thread j.
LoopThread == {0}
Threads == LoopThread \cup Jobs

IdleLoop == [st |-> "idle", n |-> 0, tot |-> 0, how |-> "none"]
FreeJob == [pc |-> "free", idx |-> 0, upd |-> FALSE, rd |-> "none",
            tries |-> 0, wr |-> 0, res |-> FALSE, how |-> "none"]

\* Mutant of Plan: the storage decoder runs first.
PlanStorageFirst ==
    (IF storage_configured THEN <<"storage">> ELSE <<>>)
    \o <<"inverter", "status", "settings", "controls">>
    \o (IF meter_configured THEN [i \in 1..meters |-> "meter"] ELSE <<>>)
    \o (IF mppt_configured THEN <<"mppt">> ELSE <<>>)

\* Mutant of Plan: the optional decoders run whatever the capability flags.
PlanUngated ==
    <<"inverter", "status", "settings", "controls">>
    \o [i \in 1..meters |-> "meter"]
    \o <<"mppt", "storage">>

\* The decoders of one cycle, in the order of _refresh_modbus_data.
Plan ==
    <<"inverter", "status", "settings", "controls">>
    \o (IF meter_configured THEN [i \in 1..meters |-> "meter"] ELSE <<>>)
    \o (IF mppt_configured THEN <<"mppt">> ELSE <<>>)
    \o (IF storage_configured THEN <<"storage">> ELSE <<>>)

\* The store is modelled by the key namespaces present in it: "i_" (inverter
\* identity), "m<n>_" (meter n), "s_" (storage identity) and "" (every key
\* without prefix: the telemetry of the inverter, MPPT and storage decoders
\* and the limit fields).
MeterPrefix(i) == CASE i = 1 -> "m1_" [] i = 2 -> "m2_" [] i = 3 -> "m3_"
                    [] i = 4 -> "m4_" [] OTHER -> "m5_"

\* The namespace a decoder of the cycle writes. Every meter of the cycle is
\* read with meter_prefix="m1_".
Keys(d) == IF d = "meter" THEN {"m1_"} ELSE {""}

\* Threads with a client operation in flight.
InFlight ==
    {j \in Jobs : job[j].pc \in {"connIn", "rdIn", "wrIn"}}
    \cup (IF loop.st \in {"closeIn", "cmdIn"} THEN LoopThread ELSE {})

\* The storage registers of the device: the raw control mode (StorCtl_Mod),
\* the charge rate (InWRte) and discharge rate (OutWRte) words, the minimum
\* reserve (MinRsvPct) and the state of charge (ChaState), the last two in
\* hundredths of a percent.
IdleDev == [mode |-> 0, inw |-> 10000, outw |-> 10000, rsv |-> 500, soc |-> 501]

\* No operation on the storage state has run yet.
NoOp == [name |-> "none", fired |-> "none"]

\* No hub method has been called yet. The arguments of a call are a sequence
\* of numbers (a) and an optional one (opt: <<>> for None, <<v>> for v).
NoCall == [fn |-> "none", a |-> <<>>, opt |-> <<>>, pc |-> 0, out |-> "none"]

----------------------------------------------------------------------------
(* Construction and init_data                                              *)

\* __init__: the hub as constructed, whatever the number of meter unit ids
Constructed ==
    /\ phase = "constructed"
    /\ meter_configured = FALSE
    /\ mppt_configured = FALSE
    /\ storage_configured = FALSE
    /\ entities = <<>>
    /\ timers = 0
    /\ unsub = FALSE
    /\ lock = <<>>
    /\ connected = FALSE
    /\ data = {}
    /\ loop = IdleLoop
    /\ job = [j \in Jobs |-> FreeJob]
    /\ called = <<>>
    /\ lastSkip = FALSE
    /\ released = FALSE
    /\ sto = <<>>
    /\ storage_extended_control_mode = 0
    /\ dev = IdleDev
    /\ wlog = <<>>
    /\ op = NoOp
    /\ call = NoCall

Init == Constructed /\ meters \in 0..MaxMeters

\* What self._client.connected may be after a request on the wire: an answer
\* can only have come over an open connection (the client opens one on
\* demand); a failed request may leave the connection open or closed.
AfterRequest(answered) == IF answered THEN {TRUE} ELSE BOOLEAN

\* if len(self._meter_unit_ids)>5: "Too many meters configured, max 5"
MaxMeterIds == 5

\* Mutant of IdentityFatal: init_data goes on without the identity.
IdentityIgnored(infoOk) == FALSE

\* read_device_info_data(prefix='i_') raised or returned False: init_data
\* raises
IdentityFatal(infoOk) == ~infoOk

\* Mutant of Stored: a write replaces the store.
StoredAlone(d, keys) == keys

\* self.data[key] = value for the keys of a namespace: the store keeps what
\* it held (self.data is assigned once, in __init__, and nothing is ever
\* deleted from it).
Stored(d, keys) == d \cup keys

\* The keys read_device_info_data(prefix='i_') stores
InfoKeys(infoOk) == IF infoOk THEN {"i_"} ELSE {}

\* init_data, run once by the setup before any entity exists and before any
\* other thread uses the hub. An unreadable inverter identity raises; the
\* MPPT probe sits in try/except; with more than five meters init_data
\* returns after the probe; the meter identity reads sit in try/except; the
\* nameplate read does not, so a failed read ("raise": get_registers raises)
\* leaves init_data as an exception. Otherwise the nameplate's DERTyp is 82
\* ("storage": storage_configured, and get_json_storage_info writes the s_
\* keys) or not ("pv").
\* In call, a holds the number of block reads init_data has requested.
init_data ==
    /\ phase = "constructed"
    /\ loop.st = "idle"
    /\ \E infoOk \in BOOLEAN, mpptOk \in BOOLEAN,
          meterInfo \in SUBSET (1..meters), nameplate \in {"raise", "pv", "storage"} :
        IF IdentityFatal(infoOk)
        THEN /\ phase' = "failed"
             /\ connected' \in AfterRequest(FALSE)
             /\ call' = [NoCall EXCEPT !.fn = "init_data", !.a = <<1>>, !.out = "raise"]
             /\ UNCHANGED <<meter_configured, mppt_configured, storage_configured, data>>
        ELSE IF meters > MaxMeterIds
        THEN /\ phase' = "ready"
             /\ mppt_configured' = mpptOk
             /\ connected' \in AfterRequest(mpptOk)
             /\ data' = InfoKeys(infoOk) \cup (IF mpptOk THEN {""} ELSE {})
             /\ call' = [NoCall EXCEPT !.fn = "init_data", !.a = <<2>>, !.out = "None"]
             /\ UNCHANGED <<meter_configured, storage_configured>>
        ELSE /\ phase' = (IF nameplate = "raise" THEN "failed" ELSE "ready")
             /\ mppt_configured' = mpptOk
             /\ meter_configured' = (meters > 0)
             /\ storage_configured' = (nameplate = "storage")
             /\ connected' \in AfterRequest(nameplate # "raise")
             /\ data' = InfoKeys(infoOk)
                        \cup {MeterPrefix(i) : i \in meterInfo}
                        \cup (IF mpptOk \/ nameplate # "raise" THEN {""} ELSE {})
                        \cup (IF nameplate = "storage" THEN {"s_"} ELSE {})
             /\ call' = [NoCall EXCEPT !.fn = "init_data", !.a = <<meters + 3>>,
                            !.out = IF nameplate = "raise" THEN "raise" ELSE "True"]
    /\ UNCHANGED <<meters, sto, storage_extended_control_mode, dev, wlog, op>>
    /\ UNCHANGED <<subs, lock, loop, job, called, hist>>

----------------------------------------------------------------------------
(* Subscribers and the interval timer (event loop)                         *)

\* Mutant of StartsTimer: every add registers an interval timer.
StartsTimerAlways == TRUE

\* if not self._entities: start the interval timer
StartsTimer == entities = <<>>

\* async_add_hub_entity (the list may hold a callback more than once)
async_add_hub_entity(cb) ==
    /\ phase = "ready"
    /\ loop.st = "idle"
    /\ Len(entities) < MaxSubs
    /\ IF StartsTimer
       THEN timers' = timers + 1 /\ unsub' = TRUE
       ELSE UNCHANGED <<timers, unsub>>
    /\ entities' = Append(entities, cb)
    /\ released' = FALSE
    /\ UNCHANGED <<config, stor, lock, connected, data, loop, job, called, lastSkip>>

\* list.remove: drops the first occurrence
Remove(s, cb) ==
    LET i == CHOOSE k \in 1..Len(s) : s[k] = cb /\ \A m \in 1..(k - 1) : s[m] # cb
    IN  SubSeq(s, 1, i - 1) \o SubSeq(s, i + 1, Len(s))

\* if not self._entities, after the removal
LastRemoved(s) == s = <<>>

\* async_remove_hub_entity: on the last removal the timer is cancelled and
\* close() is called, which blocks the event loop until it holds the lock.
async_remove_hub_entity(cb) ==
    /\ loop.st = "idle"
    /\ \E i \in 1..Len(entities) : entities[i] = cb
    /\ entities' = Remove(entities, cb)
    /\ IF LastRemoved(entities')
       THEN /\ timers' = timers - 1
            /\ unsub' = FALSE
            /\ loop' = [IdleLoop EXCEPT !.st = "closeW"]
       ELSE UNCHANGED <<timers, unsub, loop>>
    /\ UNCHANGED <<config, stor, lock, connected, data, job, called, hist>>

\* close(): with self._lock
close_acquire ==
    /\ loop.st = "closeW"
    /\ lock = <<>>
    /\ lock' = <<0>>
    /\ loop' = [loop EXCEPT !.st = "closeIn"]
    /\ UNCHANGED <<config, stor, subs, connected, data, job, called, hist>>

\* close(): self._client.close()
close_complete ==
    /\ loop.st = "closeIn"
    /\ connected' = FALSE
    /\ lock' = <<>>
    /\ loop' = IdleLoop
    /\ released' = TRUE
    /\ UNCHANGED <<config, stor, subs, data, job, called, lastSkip>>

\* The interval timer fires and async_refresh_modbus_data hands
\* _refresh_modbus_data to the executor. Idle job slots are interchangeable,
\* the lowest one is taken.
timer_fire(j) ==
    /\ timers > 0
    /\ loop.st = "idle"
    /\ job[j].pc = "free"
    /\ \A k \in Jobs : k < j => job[k].pc # "free"
    /\ job' = [job EXCEPT ![j] = [FreeJob EXCEPT !.pc = "queued"]]
    /\ UNCHANGED <<config, stor, subs, lock, connected, data, loop, called, hist>>

\* async_refresh_modbus_data after the await: if result, every callback of
\* self._entities is called.
Notified(result) == IF result THEN entities ELSE <<>>

async_refresh_modbus_data(j) ==
    /\ loop.st = "idle"
    /\ job[j].pc = "ret"
    /\ called' = (IF job[j].how = "raised" THEN <<>> ELSE Notified(job[j].res))
    /\ loop' = [IdleLoop EXCEPT !.st = "notified", !.how = job[j].how]
    /\ lastSkip' = (job[j].how = "connfail")
    /\ job' = [job EXCEPT ![j] = FreeJob]
    /\ UNCHANGED <<config, stor, subs, lock, connected, data, released>>

\* The callbacks have run; the event loop is idle again.
notify_done ==
    /\ loop.st = "notified"
    /\ loop' = IdleLoop
    /\ called' = <<>>
    /\ UNCHANGED <<config, stor, subs, lock, connected, data, job, hist>>

----------------------------------------------------------------------------
(* Commanded mode changes (event loop)                                     *)

\* change_settings writes the mode, the charge rate and the discharge rate
ChangeSettingsWrites == 3

\* A mode command: change_settings, with a fourth register write when a
\* minimum reserve is given (restore_defaults).
command ==
    /\ phase = "ready"
    /\ storage_configured
    /\ loop.st = "idle"
    /\ \E reserve \in BOOLEAN :
        loop' = [IdleLoop EXCEPT !.st = "cmdW",
                    !.tot = ChangeSettingsWrites + (IF reserve THEN 1 ELSE 0)]
    /\ released' = FALSE
    /\ UNCHANGED <<config, stor, subs, lock, connected, data, job, called, lastSkip>>

\* Mutant of write_registers_acquire: the write does not take the lock.
write_registers_unlocked ==
    /\ loop.st = "cmdW"
    /\ loop' = [loop EXCEPT !.st = "cmdIn"]
    /\ UNCHANGED <<config, stor, subs, lock, connected, data, job, called, hist>>

\* write_registers: with self._lock
write_registers_acquire ==
    /\ loop.st = "cmdW"
    /\ lock = <<>>
    /\ lock' = <<0>>
    /\ loop' = [loop EXCEPT !.st = "cmdIn"]
    /\ UNCHANGED <<config, stor, subs, connected, data, job, called, hist>>

\* write_registers: self._client.write_registers returns an acknowledgement or
\* an error object (which the setters ignore), or raises (which ends the
\* command). After the third write change_settings stores the limit fields.
write_registers_complete ==
    /\ loop.st = "cmdIn"
    /\ lock' = <<>>
    /\ \E out \in {"ok", "err", "raise"} :
        /\ connected' \in AfterRequest(out = "ok")
        /\ IF out = "raise"
           THEN loop' = IdleLoop /\ data' = data
           ELSE /\ loop' = (IF loop.n + 1 = loop.tot THEN IdleLoop
                            ELSE [loop EXCEPT !.st = "cmdW", !.n = loop.n + 1])
                /\ data' = (IF loop.n + 1 = ChangeSettingsWrites
                            THEN Stored(data, {""}) ELSE data)
    /\ UNCHANGED <<config, stor, subs, job, called, hist>>

----------------------------------------------------------------------------
(* One polling cycle: _refresh_modbus_data on an executor thread           *)

SetJob(j, r) == job' = [job EXCEPT ![j] = r]

\* return <result> from _refresh_modbus_data
Return(r, result, how) ==
    [FreeJob EXCEPT !.pc = "ret", !.res = result, !.how = how]

\* The first decoder: read_inverter_data
FirstDecoder(r) == [r EXCEPT !.pc = "rdW", !.idx = 1, !.rd = "none", !.tries = 0]

\* After decoder r.idx has set update_result to u: the next decoder of the
\* plan, or return update_result.
NextDecoder(r, u) ==
    IF r.idx < Len(Plan)
    THEN [r EXCEPT !.pc = "rdW", !.idx = r.idx + 1, !.upd = u, !.rd = "none",
                   !.tries = 0, !.wr = 0]
    ELSE Return(r, u, "ran")

\* Mutant of HasSubscribers: the cycle runs whether or not anyone listens.
AlwaysSubscribed == TRUE

\* The subscriber check of the cycle: if not self._entities
HasSubscribers == entities # <<>>

\* if not self._entities: return False
refresh_start(j) ==
    /\ job[j].pc = "queued"
    /\ IF HasSubscribers
       THEN SetJob(j, [job[j] EXCEPT !.pc = "chk"])
       ELSE SetJob(j, Return(job[j], FALSE, "nosubs"))
    /\ UNCHANGED <<config, stor, subs, lock, connected, data, loop, called, hist>>

\* _check_and_reconnect: if not self._client.connected: return self.connect()
check_and_reconnect(j) ==
    /\ job[j].pc = "chk"
    /\ SetJob(j, [job[j] EXCEPT !.pc = IF connected THEN "rechk" ELSE "connW"])
    /\ UNCHANGED <<config, stor, subs, lock, connected, data, loop, called, hist>>

\* _check_and_reconnect: return self._client.connected (a second look)
check_connected(j) ==
    /\ job[j].pc = "rechk"
    /\ IF connected
       THEN SetJob(j, FirstDecoder(job[j]))
       ELSE SetJob(j, Return(job[j], FALSE, "lost"))
    /\ UNCHANGED <<config, stor, subs, lock, connected, data, loop, called, hist>>

\* connect(): with self._lock
connect_acquire(j) ==
    /\ job[j].pc = "connW"
    /\ lock = <<>>
    /\ lock' = <<j>>
    /\ SetJob(j, [job[j] EXCEPT !.pc = "connIn"])
    /\ UNCHANGED <<config, stor, subs, connected, data, loop, called, hist>>

\* Mutant of AfterConnect: the result of connect() is ignored.
AfterConnectIgnored(r, ok) == FirstDecoder(r)

\* What the cycle does with the result of connect():
\* if not self._check_and_reconnect(): return False
AfterConnect(r, ok) ==
    IF ok THEN FirstDecoder(r) ELSE Return(r, FALSE, "connfail")

\* connect(): result = self._client.connect()
connect_complete(j) ==
    /\ job[j].pc = "connIn"
    /\ lock' = <<>>
    /\ \E ok \in BOOLEAN :
        /\ connected' = ok
        /\ SetJob(j, AfterConnect(job[j], ok))
    /\ UNCHANGED <<config, stor, subs, data, loop, called, hist>>

\* read_holding_registers: with self._lock
read_acquire(j) ==
    /\ job[j].pc = "rdW"
    /\ lock = <<>>
    /\ lock' = <<j>>
    /\ SetJob(j, [job[j] EXCEPT !.pc = "rdIn"])
    /\ UNCHANGED <<config, stor, subs, connected, data, loop, called, hist>>

\* read_holding_registers: the client returns the registers ("ok"), a
\* ModbusIOException ("io") or another error response ("err").
read_complete(j) ==
    /\ job[j].pc = "rdIn"
    /\ lock' = <<>>
    /\ \E out \in {"ok", "io", "err"} :
        /\ connected' \in AfterRequest(out = "ok")
        /\ SetJob(j, [job[j] EXCEPT !.pc = "got", !.rd = out])
    /\ UNCHANGED <<config, stor, subs, data, loop, called, hist>>

\* get_registers after the read: "regs" (return data.registers), "none"
\* (return None), "retry" (read once more) or "raise". As written it never
\* gets to "retry" or "none": the recursive call
\* self.get_registers(address=..., count=..., retries=...) leaves out the
\* required unit_id and raises TypeError before any read, and both error
\* logs evaluate self._unit_id, an attribute the hub does not have
\* (AttributeError), before the return None.
get_registers(out, retries) ==
    IF out = "ok" THEN "regs"
    ELSE IF out = "io"
    THEN (IF retries < 1 THEN "raise" ELSE "raise")
    ELSE "raise"

\* What a decoder may do with the registers it got: "true" (fields written,
\* return True), "raise" (an exception while decoding), "none" (read_mppt_data
\* with N != 4 returns None), and for the storage decoder the calibration
\* failsafe "auto" (set_auto_mode and set_minimum_reserve(30)). The other
\* failsafe, "halt" (change_settings(1, 0, 100, 0)), is behind a test no
\* decode passes (see read_inverter_storage_data).
DecodeResults(d) ==
    {"true", "raise"}
    \cup (IF d = "mppt" THEN {"none"} ELSE {})
    \cup (IF d = "storage" THEN {"auto"} ELSE {})

\* Mutant of Caught: the storage decoder is called outside try/except.
CaughtExceptStorage(d) == d # "storage"

\* Every decoder call of the cycle sits in try/except Exception.
Caught(d) == TRUE

\* update_result in the except clause: False, except for the meters, whose
\* except clause leaves it as it was.
ExceptResult(d, u) == IF d = "meter" THEN u ELSE FALSE

\* An exception raised inside decoder r.idx.
OnException(r) ==
    IF Caught(Plan[r.idx])
    THEN NextDecoder(r, ExceptResult(Plan[r.idx], r.upd))
    ELSE Return(r, FALSE, "raised")

\* The decoder after get_registers: if regs is None: return False; otherwise
\* decode and write the fields.
decode(j) ==
    /\ job[j].pc = "got"
    /\ LET r == job[j]
           d == Plan[r.idx]
           g == get_registers(r.rd, r.tries)
       IN  CASE g = "raise" ->
                    /\ SetJob(j, OnException(r))
                    /\ data' = data
             [] g = "none" ->
                    /\ SetJob(j, NextDecoder(r, FALSE))
                    /\ data' = data
             [] g = "retry" ->
                    /\ SetJob(j, [r EXCEPT !.pc = "rdW", !.rd = "none", !.tries = r.tries + 1])
                    /\ data' = data
             [] g = "regs" ->
                    \E res \in DecodeResults(d) :
                        CASE res = "true" ->
                                /\ SetJob(j, NextDecoder(r, TRUE))
                                /\ data' = Stored(data, Keys(d))
                          [] res = "none" ->
                                /\ SetJob(j, NextDecoder(r, FALSE))
                                /\ data' = data
                          [] res = "raise" ->
                                /\ SetJob(j, OnException(r))
                                /\ data' \in {data, Stored(data, Keys(d))}
                          [] res \in {"halt", "auto"} ->
                                /\ SetJob(j, [r EXCEPT !.pc = "wrW", !.rd = "none",
                                        !.wr = ChangeSettingsWrites
                                               + (IF res = "auto" THEN 1 ELSE 0)])
                                /\ data' = Stored(data, Keys(d))
    /\ UNCHANGED <<config, stor, subs, lock, connected, loop, called, hist>>

\* A register write of the calibration failsafe: with self._lock
failsafe_write_acquire(j) ==
    /\ job[j].pc = "wrW"
    /\ lock = <<>>
    /\ lock' = <<j>>
    /\ SetJob(j, [job[j] EXCEPT !.pc = "wrIn"])
    /\ UNCHANGED <<config, stor, subs, connected, data, loop, called, hist>>

\* A register write of the calibration failsafe completes; after the last
\* one read_inverter_storage_data returns True.
failsafe_write_complete(j) ==
    /\ job[j].pc = "wrIn"
    /\ lock' = <<>>
    /\ \E out \in {"ok", "err", "raise"} :
        /\ connected' \in AfterRequest(out = "ok")
        /\ LET r == job[j]
           IN  IF out = "raise" THEN SetJob(j, OnException(r))
               ELSE IF r.wr = 1 THEN SetJob(j, NextDecoder(r, TRUE))
               ELSE SetJob(j, [r EXCEPT !.pc = "wrW", !.wr = r.wr - 1])
    /\ UNCHANGED <<config, stor, subs, data, loop, called, hist>>

----------------------------------------------------------------------------
(* The storage state machine: read_inverter_storage_data and the commands  *)
(*                                                                         *)
(* Numbers of the store that the code keeps as floats of a percentage are  *)
(* kept here in hundredths of a percent (soc 5.01 is 501, a limit of 100   *)
(* is 10000). The register writes reach the device, which then reports     *)
(* what was written.                                                       *)

\* Values the device may hold or be set to from outside.
RawModes == 0..3
RateWords == {0, 10000, 55536}
SocWords == {500, 501, 10000}

\* convert_from_registers(..., DATATYPE.INT16): a word as two's complement
ToInt16(w) == IF w >= 32768 THEN w - 65536 ELSE w

\* calculate_value(value, sf) for the two scale factors of the storage
\* decoder, -2 and 0, with the result in hundredths
calculate_value(value, sf) == IF sf = -2 THEN value ELSE value * 100

\* Mutant of EncodeRate: a negative percentage is offset by 65535.
EncodeRateOffByOne(rate) == IF rate < 0 THEN 65535 + rate * 100 ELSE rate * 100

\* set_charge_rate / set_discharge_rate: the word written for a percentage
EncodeRate(rate) == IF rate < 0 THEN 65536 + rate * 100 ELSE rate * 100

\* STORAGE_CONTROL_MODE: the label of a raw control mode
ControlModeLabel(raw) ==
    CASE raw = 0 -> "auto" [] raw = 1 -> "charge" [] raw = 2 -> "discharge"
      [] OTHER -> "charge_discharge"

\* STORAGE_EXT_CONTROL_MODE: the label of an extended control mode
ExtLabel(n) ==
    CASE n = 0 -> "auto" [] n = 1 -> "charge" [] n = 2 -> "discharge"
      [] n = 3 -> "charge_discharge" [] n = 4 -> "grid_discharge"
      [] n = 5 -> "grid_charge" [] n = 6 -> "block_discharge"
      [] OTHER -> "calibrating"

\* The options of the mode select, by the index async_select_option
\* dispatches on: 0..6 as the extended modes, 7 block charge, 8 calibrate.
SelectLabel(n) ==
    CASE n = 7 -> "block_charge" [] n = 8 -> "calibrating" [] OTHER -> ExtLabel(n)

\* self.data[k] = v, and self.data.get(k) is None
Put(d, k, v) == [x \in (DOMAIN d) \cup {k} |-> IF x = k THEN v ELSE d[x]]
Missing(d, k) == k \notin DOMAIN d

\* The state an operation works on: the store, the device registers, the
\* writes issued so far and self.storage_extended_control_mode.
Machine == [sto |-> sto, dev |-> dev, wlog |-> <<>>,
            x |-> storage_extended_control_mode]

\* write_registers(address, payload), acknowledged by the device
WriteReg(m, reg, val) ==
    [m EXCEPT !.dev = [@ EXCEPT ![reg] = val], !.wlog = Append(@, <<reg, val>>)]

\* set_storage_control_mode
set_storage_control_mode(m, mode) ==
    IF mode \notin {0, 1, 2, 3} THEN m ELSE WriteReg(m, "mode", mode)

\* set_charge_rate
set_charge_rate(m, rate) == WriteReg(m, "inw", EncodeRate(rate))

\* set_discharge_rate
set_discharge_rate(m, rate) == WriteReg(m, "outw", EncodeRate(rate))

\* Mutant of set_minimum_reserve: a request of exactly 5 % is rejected too.
set_minimum_reserve_above(m, reserve) ==
    IF reserve <= 5 THEN m ELSE WriteReg(m, "rsv", reserve * 100)

\* set_minimum_reserve
set_minimum_reserve(m, reserve) ==
    IF reserve < 5 THEN m ELSE WriteReg(m, "rsv", reserve * 100)

\* change_settings: the limit fields stored after the three writes
StoreLimits(m, charge_limit, discharge_limit, grid_charge_power, grid_discharge_power) ==
    LET d1 == Put(m.sto, "discharge_limit",
                  IF m.x = 4 THEN 0 ELSE discharge_limit * 100)
        d2 == Put(d1, "charge_limit", IF m.x = 5 THEN 0 ELSE charge_limit * 100)
        d3 == Put(d2, "grid_charge_power", grid_charge_power * 100)
        d4 == Put(d3, "grid_discharge_power", grid_discharge_power * 100)
    IN  [m EXCEPT !.sto = d4]

\* change_settings; minimum_reserve is <<>> for None, <<r>> for r
change_settings(m, mode, charge_limit, discharge_limit, grid_charge_power, grid_discharge_power, minimum_reserve) ==
    LET m1 == set_storage_control_mode(m, mode)
        m2 == set_charge_rate(m1, charge_limit)
        m3 == set_discharge_rate(m2, discharge_limit)
        m4 == StoreLimits(m3, charge_limit, discharge_limit,
                          grid_charge_power, grid_discharge_power)
    IN  IF minimum_reserve = <<>> THEN m4
        ELSE set_minimum_reserve(m4, minimum_reserve[1])

\* The nine mode commands of the select, by option index.
set_mode(m, n) ==
    CASE n = 0 -> change_settings(m, 0, 100, 100, 0, 0, <<>>)
      [] n = 1 -> change_settings(m, 1, 100, 100, 0, 0, <<>>)
      [] n = 2 -> change_settings(m, 2, 100, 100, 0, 0, <<>>)
      [] n = 3 -> change_settings(m, 3, 100, 100, 0, 0, <<>>)
      [] n = 4 -> change_settings(m, 2, 100, 0, 0, 0, <<>>)
      [] n = 5 -> change_settings(m, 1, 0, 100, 0, 0, <<>>)
      [] n = 6 -> change_settings(m, 3, 100, 0, 0, 0, <<>>)
      [] n = 7 -> change_settings(m, 3, 0, 100, 0, 0, <<>>)
      [] OTHER -> change_settings(m, 2, 100, -100, 100, 0, <<>>)

\* Mutant of ExtMode: the test for raw mode 1 comes before the calibration
\* test.
ExtModeChargeFirst(raw, discharge_power, charge_power) ==
    IF raw = 0 THEN 0
    ELSE IF raw = 1 THEN 1
    ELSE IF raw \in {1, 3} /\ charge_power = 0 THEN 7
    ELSE IF raw \in {2, 3} /\ discharge_power < 0 THEN 4
    ELSE IF raw \in {2, 3} /\ charge_power < 0 THEN 5
    ELSE IF raw \in {2, 3} /\ discharge_power = 0 THEN 6
    ELSE IF raw = 2 THEN 2
    ELSE 3

\* "set extended storage control mode at startup": the if/elif chain
ExtMode(raw, discharge_power, charge_power) ==
    IF raw = 0 THEN 0
    ELSE IF raw \in {1, 3} /\ charge_power = 0 THEN 7
    ELSE IF raw = 1 THEN 1
    ELSE IF raw \in {2, 3} /\ discharge_power < 0 THEN 4
    ELSE IF raw \in {2, 3} /\ charge_power < 0 THEN 5
    ELSE IF raw \in {2, 3} /\ discharge_power = 0 THEN 6
    ELSE IF raw = 2 THEN 2
    ELSE 3

\* Mutant of LabelChanged: the limit fields are derived in every decode.
LabelAlwaysChanged(d, raw) == TRUE

\* control_mode is None or control_mode != STORAGE_CONTROL_MODE.get(raw)
LabelChanged(d, raw) ==
    Missing(d, "control_mode") \/ d["control_mode"] # ControlModeLabel(raw)

\* The limit fields derived from the signs of the two rates.
DeriveLimits(d, discharge_power, charge_power) ==
    LET d1 == Put(d, "discharge_limit",
                  IF discharge_power >= 0 THEN discharge_power ELSE 0)
        d2 == Put(d1, "grid_charge_power",
                  IF discharge_power >= 0 THEN 0 ELSE -discharge_power)
        d3 == Put(d2, "charge_limit", IF charge_power >= 0 THEN charge_power ELSE 0)
    IN  Put(d3, "grid_discharge_power",
            IF charge_power >= 0 THEN 0 ELSE -charge_power)

\* Mutant of Recompute: the extended mode is derived in every decode.
RecomputeAlways(d) == TRUE

\* ext_control_mode = self.data.get('ext_control_mode');
\* if ext_control_mode is None
Recompute(d) == Missing(d, "ext_control_mode")

\* if ext_control_mode == 7: the local variable is the number just derived,
\* or else the label read from the store, a string, which never equals 7.
IsCalibrating(fresh, ext) == fresh /\ ext = 7

\* read_inverter_storage_data after a successful block read
read_inverter_storage_data ==
    LET raw == dev.mode
        discharge_power == ToInt16(dev.outw)
        charge_power == ToInt16(dev.inw)
        d1 == Put(sto, "soc", calculate_value(dev.soc, -2))
        d2 == IF LabelChanged(d1, raw)
              THEN Put(DeriveLimits(d1, discharge_power, charge_power),
                       "control_mode", ControlModeLabel(raw))
              ELSE d1
        fresh == Recompute(d2)
        ext == ExtMode(raw, discharge_power, charge_power)
        d3 == IF fresh THEN Put(d2, "ext_control_mode", ExtLabel(ext)) ELSE d2
        m == [Machine EXCEPT !.sto = d3, !.x = IF fresh THEN ext ELSE @]
        soc == d3["soc"]
        seven == IsCalibrating(fresh, ext)
        fired == IF seven /\ raw = 2 /\ soc = 10000 THEN "halt"
                 ELSE IF seven /\ raw = 3 /\ soc <= 500 THEN "auto"
                 ELSE "none"
        after == CASE fired = "halt" -> change_settings(m, 1, 0, 100, 0, 0, <<>>)
                   [] fired = "auto" ->
                        LET a == set_minimum_reserve(set_mode(m, 0), 30)
                        IN  [a EXCEPT !.sto = Put(@, "ext_control_mode", ExtLabel(0)),
                                      !.x = 0]
                   [] OTHER -> m
    IN  /\ sto' = after.sto
        /\ dev' = after.dev
        /\ wlog' = after.wlog
        /\ storage_extended_control_mode' = after.x
        /\ op' = [name |-> "decode", fired |-> fired]
        /\ UNCHANGED <<config, subs, lock, connected, data, loop, job, called, hist, call>>

\* async_select_option: the mode command, then data[key] = option and
\* storage_extended_control_mode = new_mode
async_select_option(n) ==
    LET after == set_mode(Machine, n)
    IN  /\ sto' = Put(after.sto, "ext_control_mode", SelectLabel(n))
        /\ dev' = after.dev
        /\ wlog' = after.wlog
        /\ storage_extended_control_mode' = n
        /\ op' = [NoOp EXCEPT !.name = "select"]
        /\ UNCHANGED <<config, subs, lock, connected, data, loop, job, called, hist, call>>

\* The device: the battery charges or discharges, or another controller
\* changes the mode or one of the rates (one register at a time).
device_change ==
    /\ \/ \E raw \in RawModes : dev' = [dev EXCEPT !.mode = raw]
       \/ \E w \in RateWords : dev' = [dev EXCEPT !.inw = w]
       \/ \E w \in RateWords : dev' = [dev EXCEPT !.outw = w]
       \/ \E soc \in SocWords : dev' = [dev EXCEPT !.soc = soc]
    /\ dev' # dev
    /\ wlog' = <<>>
    /\ op' = [NoOp EXCEPT !.name = "device"]
    /\ UNCHANGED <<config, subs, lock, connected, data, loop, job, called, hist>>
    /\ UNCHANGED <<sto, storage_extended_control_mode, call>>

----------------------------------------------------------------------------

\* One cycle at a time: the scan interval is longer than a cycle, so the
\* timer never fires while a refresh job is queued or running.
OneJob == {1}

Next ==
    \/ init_data
    \/ \E cb \in Callbacks : async_add_hub_entity(cb)
    \/ \E cb \in Callbacks : async_remove_hub_entity(cb)
    \/ close_acquire
    \/ close_complete
    \/ \E j \in OneJob : timer_fire(j)
    \/ command
    \/ write_registers_acquire
    \/ write_registers_complete
    \/ \E j \in OneJob : async_refresh_modbus_data(j)
    \/ notify_done
    \/ \E j \in OneJob : refresh_start(j)
    \/ \E j \in OneJob : check_and_reconnect(j)
    \/ \E j \in OneJob : check_connected(j)
    \/ \E j \in OneJob : connect_acquire(j)
    \/ \E j \in OneJob : connect_complete(j)
    \/ \E j \in OneJob : read_acquire(j)
    \/ \E j \in OneJob : read_complete(j)
    \/ \E j \in OneJob : decode(j)
    \/ \E j \in OneJob : failsafe_write_acquire(j)
    \/ \E j \in OneJob : failsafe_write_complete(j)

Spec == Init /\ [][Next]_vars

\* Overlapping cycles: the timer may fire again while earlier refresh jobs
\* are still queued or running (up to MaxJobs at once). No mode command is
\* issued and no meter is configured.
InitOverlap == Init /\ meters = 0

NextOverlap ==
    \/ init_data
    \/ \E cb \in Callbacks : async_add_hub_entity(cb)
    \/ \E cb \in Callbacks : async_remove_hub_entity(cb)
    \/ close_acquire
    \/ close_complete
    \/ \E j \in Jobs : timer_fire(j)
    \/ \E j \in Jobs : async_refresh_modbus_data(j)
    \/ notify_done
    \/ \E j \in Jobs : refresh_start(j)
    \/ \E j \in Jobs : check_and_reconnect(j)
    \/ \E j \in Jobs : check_connected(j)
    \/ \E j \in Jobs : connect_acquire(j)
    \/ \E j \in Jobs : connect_complete(j)
    \/ \E j \in Jobs : read_acquire(j)
    \/ \E j \in Jobs : read_complete(j)
    \/ \E j \in Jobs : decode(j)
    \/ \E j \in Jobs : failsafe_write_acquire(j)
    \/ \E j \in Jobs : failsafe_write_complete(j)

SpecOverlap == InitOverlap /\ [][NextOverlap]_vars

\* The storage state machine alone: a ready hub with storage, whose storage
\* decoder and mode select run one at a time against a device whose
\* registers change between them.
SelectOptions == {0, 4, 8}

InitStorage ==
    /\ phase = "ready"
    /\ meters = 0
    /\ meter_configured = FALSE
    /\ mppt_configured = FALSE
    /\ storage_configured = TRUE
    /\ entities = <<>>
    /\ timers = 0
    /\ unsub = FALSE
    /\ lock = <<>>
    /\ connected = TRUE
    /\ data = {"i_", "s_", ""}
    /\ loop = IdleLoop
    /\ job = [j \in Jobs |-> FreeJob]
    /\ called = <<>>
    /\ lastSkip = FALSE
    /\ released = FALSE
    /\ sto = <<>>
    /\ storage_extended_control_mode = 0
    /\ dev \in [mode : RawModes, inw : RateWords, outw : RateWords,
                rsv : {IdleDev.rsv}, soc : SocWords]
    /\ wlog = <<>>
    /\ op = NoOp
    /\ call = NoCall

NextStorage ==
    \/ read_inverter_storage_data
    \/ \E n \in SelectOptions : async_select_option(n)
    \/ device_change

SpecStorage == InitStorage /\ [][NextStorage]_vars

----------------------------------------------------------------------------
(* The commanded operations, one register write at a time                  *)

\* A ready hub with storage and nothing else going on: the part of the
\* state the operations below leave alone.
ReadyHub ==
    /\ phase = "ready"
    /\ meters = 0
    /\ meter_configured = FALSE
    /\ storage_configured = TRUE
    /\ entities = <<>>
    /\ timers = 0
    /\ unsub = FALSE
    /\ lock = <<>>
    /\ connected = TRUE
    /\ data = {"i_", "s_", ""}
    /\ loop = IdleLoop
    /\ job = [j \in Jobs |-> FreeJob]
    /\ called = <<>>
    /\ lastSkip = FALSE
    /\ released = FALSE
    /\ wlog = <<>>
    /\ op = NoOp
    /\ call = NoCall

\* The ten commanded operations.
CommandNames ==
    {"restore_defaults", "set_auto_mode", "set_charge_mode", "set_discharge_mode",
     "set_charge_discharge_mode", "set_grid_charge_mode", "set_grid_discharge_mode",
     "set_block_discharge_mode", "set_block_charge_mode", "set_calibrate_mode"}

\* Mutant of CommandArgs: the two block modes are exchanged.
CommandArgsBlockSwapped(fn) ==
    CASE fn = "restore_defaults" -> [a |-> <<0, 100, 100, 0, 0>>, opt |-> <<7>>]
      [] fn = "set_auto_mode" -> [a |-> <<0, 100, 100, 0, 0>>, opt |-> <<>>]
      [] fn = "set_charge_mode" -> [a |-> <<1, 100, 100, 0, 0>>, opt |-> <<>>]
      [] fn = "set_discharge_mode" -> [a |-> <<2, 100, 100, 0, 0>>, opt |-> <<>>]
      [] fn = "set_charge_discharge_mode" -> [a |-> <<3, 100, 100, 0, 0>>, opt |-> <<>>]
      [] fn = "set_grid_charge_mode" -> [a |-> <<2, 100, 0, 0, 0>>, opt |-> <<>>]
      [] fn = "set_grid_discharge_mode" -> [a |-> <<1, 0, 100, 0, 0>>, opt |-> <<>>]
      [] fn = "set_block_discharge_mode" -> [a |-> <<3, 0, 100, 0, 0>>, opt |-> <<>>]
      [] fn = "set_block_charge_mode" -> [a |-> <<3, 100, 0, 0, 0>>, opt |-> <<>>]
      [] OTHER -> [a |-> <<2, 100, -100, 100, 0>>, opt |-> <<>>]

\* What each commanded operation passes to change_settings: a is <<mode,
\* charge_limit, discharge_limit, grid_charge_power, grid_discharge_power>>,
\* opt the minimum reserve.
CommandArgs(fn) ==
    CASE fn = "restore_defaults" -> [a |-> <<0, 100, 100, 0, 0>>, opt |-> <<7>>]
      [] fn = "set_auto_mode" -> [a |-> <<0, 100, 100, 0, 0>>, opt |-> <<>>]
      [] fn = "set_charge_mode" -> [a |-> <<1, 100, 100, 0, 0>>, opt |-> <<>>]
      [] fn = "set_discharge_mode" -> [a |-> <<2, 100, 100, 0, 0>>, opt |-> <<>>]
      [] fn = "set_charge_discharge_mode" -> [a |-> <<3, 100, 100, 0, 0>>, opt |-> <<>>]
      [] fn = "set_grid_charge_mode" -> [a |-> <<2, 100, 0, 0, 0>>, opt |-> <<>>]
      [] fn = "set_grid_discharge_mode" -> [a |-> <<1, 0, 100, 0, 0>>, opt |-> <<>>]
      [] fn = "set_block_discharge_mode" -> [a |-> <<3, 100, 0, 0, 0>>, opt |-> <<>>]
      [] fn = "set_block_charge_mode" -> [a |-> <<3, 0, 100, 0, 0>>, opt |-> <<>>]
      [] OTHER -> [a |-> <<2, 100, -100, 100, 0>>, opt |-> <<>>]

\* Mode values set_storage_control_mode does not accept, and the calls of
\* change_settings that carry one.
UnsupportedModes == {-1, 4}
DirectCalls ==
    {[a |-> <<mode, charge_limit, discharge_limit, 0, 0>>, opt |-> <<>>] :
        mode \in UnsupportedModes, charge_limit \in {0, 100},
        discharge_limit \in {0, 100}}

\* Requests to set_minimum_reserve, in percent.
ReserveRequests == {0, 4, 5, 7, 30, 100}

\* Mutant of Step: change_settings stores the limit fields first.
StepStoreFirst(pc) ==
    CASE pc = 1 -> "store" [] pc = 2 -> "mode" [] pc = 3 -> "charge"
      [] pc = 4 -> "discharge" [] OTHER -> "reserve"

\* The statements of change_settings, in order.
Step(pc) ==
    CASE pc = 1 -> "mode" [] pc = 2 -> "charge" [] pc = 3 -> "discharge"
      [] pc = 4 -> "store" [] OTHER -> "reserve"
LastStep == 5

\* The machine a call in progress works on: the writes issued so far are kept.
Running == [Machine EXCEPT !.wlog = wlog]

\* One statement of change_settings
StepEffect(m, c) ==
    CASE Step(c.pc) = "mode" -> set_storage_control_mode(m, c.a[1])
      [] Step(c.pc) = "charge" -> set_charge_rate(m, c.a[2])
      [] Step(c.pc) = "discharge" -> set_discharge_rate(m, c.a[3])
      [] Step(c.pc) = "store" -> StoreLimits(m, c.a[2], c.a[3], c.a[4], c.a[5])
      [] OTHER -> IF c.opt = <<>> THEN m ELSE set_minimum_reserve(m, c.opt[1])

\* What self._client.write_registers may do with a write: acknowledge it,
\* answer with an error object (which the setters ignore) or raise.
WriteOutcomes(wrote) == IF wrote THEN {"ok", "err", "raise"} ELSE {"none"}

\* One of the ten commanded operations is called.
command_call(fn) ==
    /\ call.pc = 0
    /\ call' = [fn |-> fn, a |-> CommandArgs(fn).a, opt |-> CommandArgs(fn).opt,
                pc |-> 1, out |-> "none"]
    /\ wlog' = <<>>
    /\ op' = [NoOp EXCEPT !.name = "command"]
    /\ UNCHANGED <<config, subs, lock, connected, data, loop, job, called, hist>>
    /\ UNCHANGED <<sto, storage_extended_control_mode, dev>>

\* change_settings is called with a mode that is not supported.
change_settings_call(c) ==
    /\ call.pc = 0
    /\ call' = [fn |-> "change_settings", a |-> c.a, opt |-> c.opt,
                pc |-> 1, out |-> "none"]
    /\ wlog' = <<>>
    /\ op' = [NoOp EXCEPT !.name = "command"]
    /\ UNCHANGED <<config, subs, lock, connected, data, loop, job, called, hist>>
    /\ UNCHANGED <<sto, storage_extended_control_mode, dev>>

\* The next statement of the change_settings in progress. A write that
\* raises ends the call; one the device does not acknowledge leaves the
\* register as it was.
change_settings_step ==
    /\ call.pc > 0
    /\ LET m1 == StepEffect(Running, call)
       IN  \E out \in WriteOutcomes(Len(m1.wlog) > Len(wlog)) :
             /\ sto' = m1.sto
             /\ dev' = (IF out \in {"err", "raise"} THEN dev ELSE m1.dev)
             /\ wlog' = m1.wlog
             /\ storage_extended_control_mode' = m1.x
             /\ call' = (IF out = "raise"
                         THEN [call EXCEPT !.pc = 0, !.out = "raise"]
                         ELSE IF call.pc = LastStep
                         THEN [call EXCEPT !.pc = 0, !.out = "returned"]
                         ELSE [call EXCEPT !.pc = @ + 1])
    /\ UNCHANGED <<config, subs, lock, connected, data, loop, job, called, hist, op>>

\* set_minimum_reserve is called on its own.
call_set_minimum_reserve(r) ==
    /\ call.pc = 0
    /\ LET m1 == set_minimum_reserve(Machine, r)
       IN  \E out \in WriteOutcomes(m1.wlog # <<>>) :
             /\ dev' = (IF out \in {"err", "raise"} THEN dev ELSE m1.dev)
             /\ wlog' = m1.wlog
             /\ call' = [fn |-> "set_minimum_reserve", a |-> <<r>>, opt |-> <<>>,
                         pc |-> 0,
                         out |-> IF out = "raise" THEN "raise" ELSE "returned"]
    /\ op' = [NoOp EXCEPT !.name = "command"]
    /\ UNCHANGED <<config, subs, lock, connected, data, loop, job, called, hist>>
    /\ UNCHANGED <<sto, storage_extended_control_mode>>

\* The commands alone, on a ready hub whose extended mode is auto, grid
\* discharge or grid charge.
InitCommand ==
    /\ ReadyHub
    /\ mppt_configured = FALSE
    /\ sto = <<>>
    /\ storage_extended_control_mode \in {0, 4, 5}
    /\ dev = IdleDev

NextCommand ==
    \/ \E fn \in CommandNames : command_call(fn)
    \/ \E c \in DirectCalls : change_settings_call(c)
    \/ change_settings_step
    \/ \E r \in ReserveRequests : call_set_minimum_reserve(r)

SpecCommand == InitCommand /\ [][NextCommand]_vars

----------------------------------------------------------------------------
(* The rate setters                                                        *)

\* Percentages given to set_charge_rate / set_discharge_rate.
Percentages == -100..100

\* Watt requests given to set_charge_rate_w / set_discharge_rate_w: the
\* number num * 2^-shift, with whole watts (shift 0) and one request far
\* below a watt in either direction.
SubShift == 50
WattValues == {-30000, -11001, -11000, -5500, -33, -7, -1, 0,
               1, 7, 33, 5500, 11000, 11001, 30000}
WattRequests ==
    {[num |-> n, shift |-> 0] : n \in WattValues}
    \cup {[num |-> n, shift |-> SubShift] : n \in {-1, 1}}

\* self.max_charge_rate_w / self.max_discharge_rate_w: 11000 from the
\* constructor, or the nameplate's MaxChaRte / MaxDisChaRte.
MaxRates == {3, 5120, 11000, 12000}

\* set_charge_rate_w / set_discharge_rate_w: the rate in percent, 100 or
\* -100 beyond the maximum and w / max * 100 otherwise, as the fraction
\* n / (d * 2^shift). A request with shift > 0 is less than a watt.
RateOfWatts(w, M) ==
    IF w.shift = 0 /\ w.num > M THEN [n |-> 100, d |-> 1, shift |-> 0]
    ELSE IF w.shift = 0 /\ w.num < -M THEN [n |-> -100, d |-> 1, shift |-> 0]
    ELSE [n |-> w.num * 100, d |-> M, shift |-> w.shift]

\* Doubles between 32768 and 65536 are 2^-37 apart: 65536 + x is 65536 again
\* for a negative x of at most 2^-38.
HalfSpacing == 38

\* set_charge_rate / set_discharge_rate on a float: int(65536 + rate * 100)
\* for a negative rate, int(round(rate * 100)) otherwise, with rate * 100 =
\* q.n * 100 / (q.d * 2^q.shift). int() truncates; at an exact half the
\* rounding error of the division decides which neighbour round() gives.
EncodeRateFloat(q) ==
    LET x == q.n * 100
    IN  IF q.n < 0
        THEN IF q.shift >= HalfSpacing /\ -x <= q.d * 2^(q.shift - HalfSpacing)
             THEN {65536}
             ELSE IF q.shift > 0 THEN {65535}
             ELSE {65536 + (x \div q.d)}
        ELSE IF q.shift > 0 THEN {0}
             ELSE IF 2 * (x % q.d) < q.d THEN {x \div q.d}
             ELSE IF 2 * (x % q.d) > q.d THEN {(x \div q.d) + 1}
             ELSE {x \div q.d, (x \div q.d) + 1}

\* The name of the setter of a rate register.
SetterName(reg, watts) ==
    CASE reg = "inw" /\ watts -> "set_charge_rate_w"
      [] reg = "inw" -> "set_charge_rate"
      [] watts -> "set_discharge_rate_w"
      [] OTHER -> "set_discharge_rate"

\* set_charge_rate (reg "inw") or set_discharge_rate (reg "outw") is called
\* with a percentage.
call_set_rate(reg, p) ==
    /\ call.fn = "none"
    /\ LET m1 == IF reg = "inw" THEN set_charge_rate(Machine, p)
                 ELSE set_discharge_rate(Machine, p)
       IN  \E out \in WriteOutcomes(TRUE) :
             /\ dev' = (IF out = "ok" THEN m1.dev ELSE dev)
             /\ wlog' = m1.wlog
             /\ call' = [fn |-> SetterName(reg, FALSE), a |-> <<p>>, opt |-> <<>>,
                         pc |-> 0,
                         out |-> IF out = "raise" THEN "raise" ELSE "returned"]
    /\ op' = [NoOp EXCEPT !.name = "command"]
    /\ UNCHANGED <<config, subs, lock, connected, data, loop, job, called, hist>>
    /\ UNCHANGED <<sto, storage_extended_control_mode>>

\* set_charge_rate_w or set_discharge_rate_w is called with a watt request,
\* the maximum rate being M. A payload that is no 16-bit word cannot be
\* acknowledged.
call_set_rate_w(reg, w, M) ==
    /\ call.fn = "none"
    /\ \E v \in EncodeRateFloat(RateOfWatts(w, M)) :
        \E out \in (IF v \in 0..65535 THEN WriteOutcomes(TRUE) ELSE {"err", "raise"}) :
             /\ dev' = (IF out = "ok" THEN [dev EXCEPT ![reg] = v] ELSE dev)
             /\ wlog' = << <<reg, v>> >>
             /\ call' = [fn |-> SetterName(reg, TRUE), a |-> <<w.num, w.shift, M>>,
                         opt |-> <<>>, pc |-> 0,
                         out |-> IF out = "raise" THEN "raise" ELSE "returned"]
    /\ op' = [NoOp EXCEPT !.name = "command"]
    /\ UNCHANGED <<config, subs, lock, connected, data, loop, job, called, hist>>
    /\ UNCHANGED <<sto, storage_extended_control_mode>>

\* One call of a rate setter on a ready hub.
InitRate ==
    /\ ReadyHub
    /\ mppt_configured = FALSE
    /\ sto = <<>>
    /\ storage_extended_control_mode = 0
    /\ dev \in [mode : {IdleDev.mode}, inw : RateWords, outw : RateWords,
                rsv : {IdleDev.rsv}, soc : {IdleDev.soc}]

NextRate ==
    \/ \E reg \in {"inw", "outw"}, p \in Percentages : call_set_rate(reg, p)
    \/ \E reg \in {"inw", "outw"}, w \in WattRequests, M \in MaxRates :
          call_set_rate_w(reg, w, M)

SpecRate == InitRate /\ [][NextRate]_vars

----------------------------------------------------------------------------
(* The primary-meter and MPPT decoders, key by key                         *)
(*                                                                         *)
(* Frequencies are kept in hundredths of a hertz. Of the fields a decoder  *)
(* writes, the store sto holds those another decoder reads or a status is  *)
(* derived from; the rest is in the key groups of data.                    *)

\* Line frequencies a decoder may compute from its registers (-32768 is
\* the word of a point that is not implemented).
Frequencies == {-32768, 0, 99, 100, 4800, 4801, 5000, 5199, 5200, 5201,
                5399, 5400, 6000}

\* GRID_STATUS: the label of a grid status
GridStatusLabel(n) ==
    CASE n = 0 -> "no connection" [] n = 1 -> "over-frequency"
      [] n = 2 -> "island/backup" [] OTHER -> "grid-connected normal"

\* Mutant of GridStatus: the meter frequency is looked at first.
GridStatusMeterFirst(i_frequency, m_frequency) ==
    IF m_frequency > 4800 /\ i_frequency < 100 THEN GridStatusLabel(2)
    ELSE IF m_frequency < 100 THEN GridStatusLabel(0)
    ELSE IF i_frequency > 4800 /\ i_frequency < 5200 THEN GridStatusLabel(3)
    ELSE IF i_frequency > 5200 /\ i_frequency < 5400 THEN GridStatusLabel(1)
    ELSE ""

\* read_meter_data, meter_prefix == 'm1_': status_str, which starts as ""
GridStatus(i_frequency, m_frequency) ==
    IF i_frequency > 4800 /\ i_frequency < 5200 THEN GridStatusLabel(3)
    ELSE IF i_frequency > 5200 /\ i_frequency < 5400 THEN GridStatusLabel(1)
    ELSE IF i_frequency < 100
    THEN IF m_frequency > 4800 THEN GridStatusLabel(2)
         ELSE IF m_frequency < 100 THEN GridStatusLabel(0)
         ELSE ""
    ELSE ""

\* if status_str is None: status_str is "" or a label of GRID_STATUS
IsNone(status_str) == status_str = "None"

\* Module counts the MPPT block may report, and the power and lifetime
\* energy words of its four modules (scale factors 0).
ModuleCounts == {0, 2, 4, 5}
MpptSamples == {<<10, 20, 0, 5>>, <<0, 0, 7, 0>>}

\* Mutant of MpptSupported: any module count is decoded.
MpptAnyCount(N) == TRUE

\* if N != 4: return
MpptSupported(N) == N = 4

\* read_mppt_data on a block with module count N: the store afterwards and
\* the value returned ("None" for the bare return)
MpptDecode(d, N, w) ==
    IF ~MpptSupported(N) THEN [sto |-> d, res |-> "None"]
    ELSE LET p == [i \in 1..4 |-> calculate_value(w[i], 0)]
             d1 == Put(Put(Put(Put(d, "mppt1_power", p[1]), "mppt2_power", p[2]),
                           "mppt3_power", p[3]), "mppt4_power", p[4])
             d2 == Put(Put(d1, "pv_power", p[1] + p[2]), "storage_power", p[4] - p[3])
             d3 == Put(Put(Put(Put(d2, "mppt1_lfte", p[1]), "mppt2_lfte", p[2]),
                           "mppt3_lfte", p[3]), "mppt4_lfte", p[4])
         IN  [sto |-> d3, res |-> "True"]

\* init_data with every block read answered: the identity is stored, the
\* MPPT probe sets mppt_configured if read_mppt_data returns True, the
\* meter's identity is stored, the nameplate reports a storage.
init_data_answered(N, w) ==
    /\ phase = "constructed"
    /\ phase' = "ready"
    /\ LET r == MpptDecode(sto, N, w)
       IN  /\ sto' = r.sto
           /\ mppt_configured' = (IF r.res = "True" THEN TRUE ELSE mppt_configured)
           /\ call' = [fn |-> "read_mppt_data", a |-> <<N>>, opt |-> <<>>,
                       pc |-> 0, out |-> r.res]
    /\ meter_configured' = (meters > 0)
    /\ storage_configured' = TRUE
    /\ connected' = TRUE
    /\ data' = {"i_", "", "s_"} \cup {MeterPrefix(i) : i \in 1..meters}
    /\ op' = [NoOp EXCEPT !.name = "init"]
    /\ UNCHANGED <<meters, subs, lock, loop, job, called, hist>>
    /\ UNCHANGED <<storage_extended_control_mode, dev, wlog>>

\* read_inverter_data of a cycle: self.data["line_frequency"]
read_inverter_data(f) ==
    /\ phase = "ready"
    /\ sto' = Put(sto, "line_frequency", f)
    /\ data' = data \cup {""}
    /\ call' = [fn |-> "read_inverter_data", a |-> <<f>>, opt |-> <<>>,
                pc |-> 0, out |-> "True"]
    /\ op' = [NoOp EXCEPT !.name = "inverter"]
    /\ UNCHANGED <<config, subs, lock, connected, loop, job, called, hist>>
    /\ UNCHANGED <<storage_extended_control_mode, dev, wlog>>

\* read_meter_data of a cycle, on the block of the meter at position
\* unit_id of self._meter_unit_ids: the meter's fields are stored under
\* meter_prefix; for the prefix "m1_" the grid status is then derived from
\* the inverter's frequency in the store (a KeyError if no inverter decode
\* has stored one).
read_meter_data(meter_prefix, unit_id, m_frequency) ==
    /\ phase = "ready"
    /\ meter_configured
    /\ LET d1 == Put(sto, meter_prefix \o "line_frequency", m_frequency)
           primary == meter_prefix = "m1_"
           known == ~Missing(d1, "line_frequency")
           status_str == IF known THEN GridStatus(d1["line_frequency"], m_frequency)
                         ELSE ""
       IN  /\ sto' = (IF ~primary \/ ~known THEN d1
                      ELSE IF IsNone(status_str) THEN Put(d1, "grid_status", "None")
                      ELSE Put(d1, "grid_status", status_str))
           /\ op' = [name |-> "meter",
                     fired |-> IF primary /\ known /\ IsNone(status_str)
                               THEN "error" ELSE "none"]
           /\ call' = [fn |-> "read_meter_data", a |-> <<m_frequency, unit_id>>,
                       opt |-> <<>>, pc |-> 0,
                       out |-> IF primary /\ ~known THEN "raise" ELSE "True"]
           /\ data' = data \cup {meter_prefix}
                          \cup (IF primary /\ known THEN {""} ELSE {})
    /\ UNCHANGED <<config, subs, lock, connected, loop, job, called, hist>>
    /\ UNCHANGED <<storage_extended_control_mode, dev, wlog>>

\* read_mppt_data of a cycle
read_mppt_data(N, w) ==
    /\ phase = "ready"
    /\ mppt_configured
    /\ LET r == MpptDecode(sto, N, w)
       IN  /\ sto' = r.sto
           /\ data' = (IF r.res = "True" THEN data \cup {""} ELSE data)
           /\ call' = [fn |-> "read_mppt_data", a |-> <<N>>, opt |-> <<>>,
                       pc |-> 0, out |-> r.res]
    /\ op' = [NoOp EXCEPT !.name = "mppt"]
    /\ UNCHANGED <<config, subs, lock, connected, loop, job, called, hist>>
    /\ UNCHANGED <<storage_extended_control_mode, dev, wlog>>

\* The decoders alone, from construction, with one meter.
InitDecode == Init /\ meters = 1

NextDecode ==
    \/ \E N \in ModuleCounts, w \in MpptSamples : init_data_answered(N, w)
    \/ \E f \in Frequencies : read_inverter_data(f)
    \/ \E unit_id \in 1..meters, f \in Frequencies :
          read_meter_data("m1_", unit_id, f)
    \/ \E N \in ModuleCounts, w \in MpptSamples : read_mppt_data(N, w)

SpecDecode == InitDecode /\ [][NextDecode]_vars

\* The decoders with two meters configured.
InitMeters == Constructed /\ meters = 2

SpecMeters == InitMeters /\ [][NextDecode]_vars

----------------------------------------------------------------------------
(* The helpers calculate_value and bitmask_to_string                       *)
(*                                                                         *)
(* A Python value is a record of its type t and a number v: the value of   *)
(* an int or a float, the int a bool is (True is 1), the number a string   *)
(* spells; v is 0 for None and for the complex value. A string of          *)
(* characters is a sequence of one-character strings.                      *)

PyValue(t, v) == [t |-> t, v |-> v]
None == PyValue("NoneType", 0)

\* Values and scale factors the helper may be handed.
PyValues ==
    {None, PyValue("complex", 0)}
    \cup {PyValue("str", v) : v \in {0, 12}}
    \cup {PyValue("bool", v) : v \in {0, 1}}
    \cup {PyValue("int", v) : v \in {-5, 0, 1, 100, 1234, 65535}}
    \cup {PyValue("float", v) : v \in {0, 2}}
PyScaleFactors ==
    {None, PyValue("complex", 0), PyValue("str", 0), PyValue("str", -2)}
    \cup {PyValue("bool", v) : v \in {0, 1}}
    \cup {PyValue("int", v) : v \in {-2, 0}}
    \cup {PyValue("float", v) : v \in {-2, 0}}

\* Mutant of is_numeric: a bool passes as the int it is.
is_numeric_bool(value) == value.t \in {"int", "float", "complex", "bool"}

\* isinstance(value, (int, float, complex)) and not isinstance(value, bool)
is_numeric(value) == value.t \in {"int", "float", "complex"}

\* calculate_value on Python values: the value returned (out "number", v in
\* hundredths), None (out "None") or an exception (out "raise": round() of
\* a complex product is a TypeError).
CalculateValue(value, sf) ==
    IF is_numeric(value) /\ is_numeric(sf)
    THEN IF value.t = "complex" \/ sf.t = "complex"
         THEN [out |-> "raise", v |-> 0]
         ELSE [out |-> "number", v |-> calculate_value(value.v, sf.v)]
    ELSE [out |-> "None", v |-> 0]

\* Mutant of BitSet: the bits are counted from one.
BitSetFromOne(bitmask, bit) == (bitmask \div 2^(bit + 1)) % 2 = 1

\* bitmask & (1<<bit)
BitSet(bitmask, bit) == (bitmask \div 2^bit) % 2 = 1

\* The characters of a bit number, and f'bit {bit} undefined'
Digits(n) == IF n < 10 THEN <<ToString(n)>>
             ELSE <<ToString(n \div 10), ToString(n % 10)>>
BitUndefined(bit) ==
    <<"b", "i", "t", " ">> \o Digits(bit)
    \o <<" ", "u", "n", "d", "e", "f", "i", "n", "e", "d">>

\* for bit in range(bits): the strings appended from bit on
RECURSIVE Strings(_, _, _, _)
Strings(bitmask, bitmask_list, bit, bits) ==
    IF bit >= bits THEN <<>>
    ELSE (IF BitSet(bitmask, bit)
          THEN << IF bit < Len(bitmask_list) THEN bitmask_list[bit + 1]
                  ELSE BitUndefined(bit) >>
          ELSE <<>>)
         \o Strings(bitmask, bitmask_list, bit + 1, bits)

\* ','.join(strings)
RECURSIVE Join(_)
Join(strings) ==
    IF strings = <<>> THEN <<>>
    ELSE IF Len(strings) = 1 THEN strings[1]
    ELSE strings[1] \o <<",">> \o Join(Tail(strings))

\* s[:n]: the first n characters, or all but the last -n
Slice(s, n) ==
    LET stop == IF n >= 0 THEN n ELSE Len(s) + n
    IN  SubSeq(s, 1, IF stop > Len(s) THEN Len(s) ELSE stop)

bitmask_to_string(bitmask, bitmask_list, default, max_length, bits) ==
    LET strings == Strings(bitmask, bitmask_list, 0, bits)
    IN  IF Len(strings) # 0 THEN Slice(Join(strings), max_length) ELSE default

\* Bitmasks, label lists, defaults, lengths and bit widths of a call. 65536
\* has its only set bit above the sixteen bits looked at.
Bitmasks == {0, 1, 2, 5, 6, 7, 8, 13, 4097, 32768, 65536, 65541}
LabelLists == {<<>>, << <<"A">>, <<"B">>, <<"C">> >>,
               << <<"O", "n">>, <<>>, <<"O", "f", "f">>, <<"X">> >>}
Defaults == {<<"N", "A">>, <<"A", ",", "C">>}
MaxLengths == {0, 1, 2, 3, 4, 255}
BitWidths == {2, 3, 16}

call_calculate_value(value, sf) ==
    /\ call.fn = "none"
    /\ LET r == CalculateValue(value, sf)
       IN  call' = [fn |-> "calculate_value", a |-> <<value, sf>>,
                    opt |-> <<r.v>>, pc |-> 0, out |-> r.out]
    /\ op' = [NoOp EXCEPT !.fired = IF ~is_numeric(value) \/ ~is_numeric(sf)
                                    THEN "debug" ELSE "none"]
    /\ UNCHANGED <<config, subs, lock, connected, data, loop, job, called, hist>>
    /\ UNCHANGED <<sto, storage_extended_control_mode, dev, wlog>>

call_bitmask_to_string(bitmask, bitmask_list, default, max_length, bits) ==
    /\ call.fn = "none"
    /\ call' = [fn |-> "bitmask_to_string",
                a |-> <<bitmask, bitmask_list, default, max_length, bits>>,
                opt |-> <<bitmask_to_string(bitmask, bitmask_list, default,
                                            max_length, bits)>>,
                pc |-> 0, out |-> "returned"]
    /\ UNCHANGED <<config, subs, lock, connected, data, loop, job, called, hist>>
    /\ UNCHANGED <<sto, storage_extended_control_mode, dev, wlog, op>>

\* One call of a helper on a hub as constructed.
InitHelpers == Constructed /\ meters = 0

NextHelpers ==
    \/ \E value \in PyValues, sf \in PyScaleFactors : call_calculate_value(value, sf)
    \/ \E bitmask \in Bitmasks, bitmask_list \in LabelLists, default \in Defaults,
          max_length \in MaxLengths, bits \in BitWidths :
          call_bitmask_to_string(bitmask, bitmask_list, default, max_length, bits)

SpecHelpers == InitHelpers /\ [][NextHelpers]_vars

----------------------------------------------------------------------------
(* Claims                                                                  *)

\* C1: at most one operation on the Modbus client (connect, close,
\* read_holding_registers, write_registers) is in flight at any time, and
\* the thread it belongs to holds the lock.
C1_OneOperationInFlight ==
    /\ Cardinality(InFlight) <= 1
    /\ \A t \in InFlight : lock = <<t>>

\* C1 witness: a block read of the cycle is in flight while a commanded
\* write waits for the lock.
C1_Witness == loop.st = "cmdW" /\ \E j \in Jobs : job[j].pc = "rdIn"

\* C2: when the first read of a block returns an I/O error, get_registers
\* issues the same read once more; a second failure makes it return no data
\* to the decoder (which then returns False) without a third read and
\* without an exception.
C2_RetryOnce ==
    [][\A j \in Jobs :
        (job[j].pc = "got" /\ job[j].rd = "io" /\ job'[j].pc # "got") =>
            IF job[j].tries = 0
            THEN job'[j].pc = "rdW" /\ job'[j].idx = job[j].idx /\ job'[j].tries = 1
            ELSE job'[j] = NextDecoder(job[j], FALSE)]_vars

C4_NotifyEveryCycle ==
    (loop.st = "notified" /\ loop.how = "ran" /\ entities # <<>>) => called = entities

\* A cycle that has issued a block read and has not finished its last decoder.
Decoding(j) ==
    \/ job[j].pc \in {"rdIn", "got", "wrW", "wrIn"}
    \/ job[j].pc = "rdW" /\ job[j].idx > 1

\* C5: two cycles never overlap: no cycle issues its first block read before
\* the last decoder of an earlier cycle has finished.
C5_CyclesDoNotOverlap ==
    \A j1 \in Jobs, j2 \in Jobs : j1 # j2 => ~(Decoding(j1) /\ Decoding(j2))

\* C6: while the subscriber list is empty the timer is cancelled and no
\* cycle issues a connect attempt or a block read.
C6_NoReadAfterUnsubscribe ==
    /\ [](entities = <<>> => timers = 0)
    /\ [][\A j \in Jobs :
            entities = <<>> =>
                ~(job[j].pc \in {"connW", "rdW"} /\ job'[j].pc \in {"connIn", "rdIn"})]_vars

\* C7: once async_remove_hub_entity has returned with no subscriber left, the
\* transport is closed and stays closed while the list is empty.
C7_ClosedWhileUnsubscribed == released => ~connected

\* C8: the interval timer is active iff there is a subscriber, and there is
\* never more than one timer.
C8_TimerIffSubscribers ==
    /\ timers = (IF entities # <<>> THEN 1 ELSE 0)
    /\ unsub <=> (entities # <<>>)

\* C8 witness: a second subscriber was added while the timer was active.
C8_Witness == Len(entities) = 2 /\ timers = 1

\* C9: a cycle that finds no subscriber returns False at once: no connect, no
\* block read, the store unchanged, and nobody is notified.
C9_SkipWithoutSubscribers ==
    [][\A j \in Jobs :
        /\ (job[j].pc = "queued" /\ job'[j].pc # "queued" /\ entities = <<>>) =>
              /\ job'[j].pc = "ret" /\ job'[j].how = "nosubs" /\ ~job'[j].res
              /\ data' = data /\ connected' = connected /\ lock' = lock
        /\ (job[j].pc = "ret" /\ job[j].how = "nosubs" /\ job'[j].pc # "ret") =>
              called' = <<>>]_vars

\* C9 witness: a skipped cycle is over and the event loop has delivered its
\* result to no one, with a subscriber present again.
C9_Witness ==
    loop.st = "notified" /\ loop.how = "nosubs" /\ called = <<>> /\ entities # <<>>

\* C10: a cycle that finds the session disconnected (the check
\* "if not self._client.connected" of _check_and_reconnect) makes one connect
\* attempt; if it fails the cycle returns False (no decoder, no read, the
\* store unchanged, nobody notified), the hub stays ready, and a later cycle
\* attempts the connect again. A session that is lost after that check is
\* seen by the second look (check_connected): that cycle is skipped too,
\* without a connect attempt.
C10_ReconnectOrSkip ==
    [][\A j \in Jobs :
        /\ (job[j].pc = "chk" /\ ~connected /\ job'[j].pc # "chk") =>
              job'[j].pc = "connW"
        /\ (job[j].pc = "connW" /\ job'[j].pc # "connW") => job'[j].pc = "connIn"
        /\ (job[j].pc = "connIn" /\ job'[j].pc # "connIn") =>
              \/ connected' /\ job'[j].pc = "rdW" /\ job'[j].idx = 1
              \/ /\ ~connected'
                 /\ job'[j].pc = "ret" /\ job'[j].how = "connfail" /\ ~job'[j].res
                 /\ data' = data
        /\ (job[j].pc = "ret" /\ job[j].how = "connfail" /\ job'[j].pc # "ret") =>
              called' = <<>> /\ phase' = "ready"]_vars

\* C10 witness: the previous cycle failed its reconnect and the cycle after
\* it has its own connect attempt in flight.
C10_Witness == lastSkip /\ \E j \in Jobs : job[j].pc = "connIn"

Rank(d) == CASE d = "inverter" -> 1 [] d = "status" -> 2 [] d = "settings" -> 3
             [] d = "controls" -> 4 [] d = "meter" -> 5 [] d = "mppt" -> 6
             [] OTHER -> 7

\* C12: the reads of a cycle are issued in the order inverter, status,
\* settings, controls, meters, MPPT, storage, and a decoder's read is issued
\* only when the decoder before it has finished.
C12_FixedOrder ==
    /\ [](LET p == Plan
          IN  /\ Len(p) >= 4
              /\ \A i \in 1..4 : Rank(p[i]) = i
              /\ \A i \in 1..(Len(p) - 1) :
                    /\ Rank(p[i]) <= Rank(p[i + 1])
                    /\ Rank(p[i]) = Rank(p[i + 1]) => p[i] = "meter")
    /\ [][\A j \in Jobs :
            /\ (job'[j].pc = "rdIn" /\ job[j].pc # "rdIn") =>
                  job[j].pc = "rdW" /\ job'[j].idx = job[j].idx
            /\ (job'[j].pc = "rdW" /\ job'[j].idx # job[j].idx) =>
                  \/ job'[j].idx = 1 /\ job[j].pc \in {"rechk", "connIn"}
                  \/ /\ job'[j].idx = job[j].idx + 1
                     /\ job[j].pc \in {"got", "wrIn"}]_vars

\* C12 witness: with a meter, MPPT and storage configured, the read of the
\* last decoder of the plan, the storage decoder, is in flight.
C12_Witness ==
    /\ meter_configured /\ mppt_configured /\ storage_configured
    /\ \E j \in Jobs :
          job[j].pc = "rdIn" /\ job[j].idx = Len(Plan) /\ Plan[job[j].idx] = "storage"

\* C13: a meter, MPPT or storage read is issued only with the decoder's
\* capability flag set, and once init_data is over no step changes a flag.
C13_FlagsGateDecoders ==
    /\ [](\A j \in Jobs :
            job[j].pc \in {"rdW", "rdIn", "got", "wrW", "wrIn"} =>
                /\ Plan[job[j].idx] = "meter" => meter_configured
                /\ Plan[job[j].idx] = "mppt" => mppt_configured
                /\ Plan[job[j].idx] = "storage" => storage_configured)
    /\ [][phase # "constructed" =>
            UNCHANGED <<meter_configured, mppt_configured, storage_configured>>]_vars

\* C13 witness: a cycle has run all its decoders on a hub with storage but
\* without MPPT, and a mode command is under way.
C13_Witness ==
    /\ storage_configured /\ ~mppt_configured
    /\ loop.st = "cmdW"
    /\ \E j \in Jobs : job[j].pc = "ret" /\ job[j].how = "ran"

\* A step of the storage decoder, and what it read from the device.
DecodeStep == op'.name = "decode"
RawMode == dev.mode
DischargePower == ToInt16(dev.outw)
ChargePower == ToInt16(dev.inw)

\* The cached extended state is calibrating.
CachedCalibrating ==
    ~Missing(sto, "ext_control_mode") /\ sto["ext_control_mode"] = ExtLabel(7)

\* C14: the first storage observation derives the extended mode from (raw
\* mode, discharge power, charge power) by the first matching row: raw 0
\* auto(0); raw 1 or 3 with charge power 0 calibrating(7); raw 1 charge(1);
\* raw 2 or 3 with discharge power < 0 (4); with charge power < 0 (5); with
\* discharge power 0 (6); raw 2 discharge(2); raw 3 charge_discharge(3). The
\* rows are written out with the rows before them excluded. (A decode that
\* derives calibrating and fires the reset failsafe ends in auto.)
C14_ExtModeFirstMatch ==
    [][(DecodeStep /\ Missing(sto, "ext_control_mode")) =>
        LET raw == RawMode
            dp == DischargePower
            cp == ChargePower
            e == storage_extended_control_mode'
        IN  /\ ~Missing(sto', "ext_control_mode")
            /\ sto'["ext_control_mode"] = ExtLabel(e)
            /\ IF op'.fired = "none"
               THEN /\ raw = 0 => e = 0
                    /\ (raw \in {1, 3} /\ cp = 0) => e = 7
                    /\ (raw = 1 /\ cp # 0) => e = 1
                    /\ (raw = 2 /\ dp < 0) => e = 4
                    /\ (raw = 3 /\ cp # 0 /\ dp < 0) => e = 4
                    /\ (raw = 2 /\ dp >= 0 /\ cp < 0) => e = 5
                    /\ (raw = 3 /\ dp >= 0 /\ cp < 0) => e = 5
                    /\ (raw = 2 /\ dp = 0 /\ cp >= 0) => e = 6
                    /\ (raw = 3 /\ dp = 0 /\ cp > 0) => e = 6
                    /\ (raw = 2 /\ dp > 0 /\ cp >= 0) => e = 2
                    /\ (raw = 3 /\ dp > 0 /\ cp > 0) => e = 3
               ELSE raw = 3 /\ cp = 0 /\ e = 0]_vars

\* C14 witness: a first observation of raw mode 3 with a negative charge rate
\* and a positive discharge rate has derived mode 5.
C14_Witness ==
    /\ op.name = "decode" /\ storage_extended_control_mode = 5
    /\ dev.mode = 3 /\ ToInt16(dev.inw) < 0 /\ ToInt16(dev.outw) > 0

\* C15: once the extended mode is in the store, a storage decode leaves the
\* cached label and storage_extended_control_mode as they are, whatever the
\* raw mode and the rates have become; only the failsafe reset and a mode
\* select change them.
C15_ExtModeCached ==
    [][(op'.name \in {"decode", "device"} /\ ~Missing(sto, "ext_control_mode")
            /\ op'.fired # "auto") =>
        /\ ~Missing(sto', "ext_control_mode")
        /\ sto'["ext_control_mode"] = sto["ext_control_mode"]
        /\ storage_extended_control_mode' = storage_extended_control_mode]_vars

\* C15 witness: the extended mode was derived as auto from raw mode 0; the
\* raw mode then became 2 and a decode ran (the control mode label follows
\* the raw mode, the extended label does not).
C15_Witness ==
    /\ op.name = "decode"
    /\ ~Missing(sto, "ext_control_mode") /\ sto["ext_control_mode"] = ExtLabel(0)
    /\ storage_extended_control_mode = 0
    /\ dev.mode = 2 /\ sto["control_mode"] = ControlModeLabel(2)

\* C16: the calibration failsafe runs in every storage decode while the
\* cached extended state is calibrating: a decode that observes raw mode 2
\* with soc = 100, or raw mode 3 with soc <= 5, fires it.
C16_FailsafeEveryCycle ==
    [][(DecodeStep /\ CachedCalibrating
            /\ (\/ RawMode = 2 /\ dev.soc = 10000
                \/ RawMode = 3 /\ dev.soc <= 500)) =>
        op'.fired # "none"]_vars

\* The operation wrote val to register reg.
WrittenValue(log, reg, val) == \E i \in 1..Len(log) : log[i] = <<reg, val>>

\* C17: a decode in the calibrating state that observes raw mode 2 with soc
\* exactly 100 commands discharge mode with a discharge limit of 0%: it
\* writes 2 to the control mode register and 0 to the discharge rate
\* register.
C17_HaltWritesDischargeZero ==
    [][(DecodeStep /\ CachedCalibrating /\ RawMode = 2 /\ dev.soc = 10000) =>
        /\ WrittenValue(wlog', "mode", 2)
        /\ WrittenValue(wlog', "outw", 0)]_vars

\* C18: a decode in the calibrating state (cached, or derived by this decode)
\* that observes raw mode 3 with soc <= 5 writes auto mode (mode 0, both
\* rates 100%), writes 3000 to the minimum reserve register and sets the
\* cached extended state to auto.
C18_ResetToAuto ==
    [][(DecodeStep /\ RawMode = 3 /\ dev.soc <= 500
            /\ (\/ CachedCalibrating
                \/ Missing(sto, "ext_control_mode") /\ ChargePower = 0)) =>
        /\ wlog' = << <<"mode", 0>>, <<"inw", 10000>>, <<"outw", 10000>>,
                      <<"rsv", 3000>> >>
        /\ sto'["ext_control_mode"] = ExtLabel(0)
        /\ storage_extended_control_mode' = 0]_vars

\* C19: with the extended state calibrating and raw mode 2, the first decode
\* of a plateau of soc = 100 fires the halt command, and the decodes after it
\* on the same plateau leave the registers and the store as they are.
C19_HaltOncePerPlateau ==
    [][(DecodeStep /\ CachedCalibrating /\ RawMode = 2 /\ dev.soc = 10000) =>
        IF Missing(sto, "soc") \/ sto["soc"] # 10000
        THEN op'.fired = "halt"
        ELSE dev' = dev /\ sto' = sto]_vars

\* The four limit fields of the store.
LimitKeys == {"discharge_limit", "charge_limit", "grid_charge_power",
              "grid_discharge_power"}

\* C20: a storage decode whose raw control mode label equals the cached
\* control_mode label leaves the four limit fields and the label as they
\* are; a decode with the label absent or different sets the label, and
\* (unless the failsafe then commands other limits) derives the four fields
\* from the signs of the rates.
C20_LimitsOnlyOnLabelChange ==
    [][DecodeStep =>
        IF ~Missing(sto, "control_mode") /\ sto["control_mode"] = ControlModeLabel(RawMode)
        THEN /\ sto'["control_mode"] = sto["control_mode"]
             /\ \A k \in LimitKeys :
                    IF Missing(sto, k) THEN Missing(sto', k) ELSE sto'[k] = sto[k]
        ELSE /\ sto'["control_mode"] = ControlModeLabel(RawMode)
             /\ op'.fired = "none" =>
                  /\ sto'["discharge_limit"] =
                        (IF DischargePower >= 0 THEN DischargePower ELSE 0)
                  /\ sto'["grid_charge_power"] =
                        (IF DischargePower >= 0 THEN 0 ELSE -DischargePower)
                  /\ sto'["charge_limit"] =
                        (IF ChargePower >= 0 THEN ChargePower ELSE 0)
                  /\ sto'["grid_discharge_power"] =
                        (IF ChargePower >= 0 THEN 0 ELSE -ChargePower)]_vars

\* C20 witness: a decode has run with the cached label equal to the raw
\* mode's label, and the discharge limit of the store is not what the
\* device's discharge rate would give.
C20_Witness ==
    /\ op.name = "decode"
    /\ ~Missing(sto, "control_mode") /\ sto["control_mode"] = ControlModeLabel(dev.mode)
    /\ sto["discharge_limit"] # (IF ToInt16(dev.outw) >= 0 THEN ToInt16(dev.outw) ELSE 0)

\* The place of a storage register in the order of change_settings.
RegOrder(reg) ==
    CASE reg = "mode" -> 1 [] reg = "inw" -> 2 [] reg = "outw" -> 3 [] OTHER -> 4

\* The registers written so far, in the order of the writes.
Registers(log) == [i \in 1..Len(log) |-> log[i][1]]

\* C21: a commanded operation writes the mode register, then the charge
\* rate, then the discharge rate, then (only if a minimum reserve is given)
\* the minimum reserve; the store changes only in a step that issues no
\* write, taken when the mode and the two rates have been written.
C21_WriteOrder ==
    [][(call.pc > 0 /\ call.fn \in CommandNames) =>
        /\ \A i \in 1..(Len(wlog') - 1) :
              RegOrder(wlog'[i][1]) < RegOrder(wlog'[i + 1][1])
        /\ (\E i \in 1..Len(wlog') : wlog'[i][1] = "rsv") => call.opt # <<>>
        /\ sto' # sto =>
              /\ wlog' = wlog
              /\ Registers(wlog) = <<"mode", "inw", "outw">>]_vars

\* C21 witness: restore_defaults has returned after four writes, the limit
\* fields stored.
C21_Witness ==
    /\ call.fn = "restore_defaults" /\ call.pc = 0 /\ call.out = "returned"
    /\ Registers(wlog) = <<"mode", "inw", "outw", "rsv">>
    /\ "charge_limit" \in DOMAIN sto

\* C22: a commanded operation that returns has written the mode and the
\* rates of the table (a rate as percent * 100, -100 as 55536), and
\* restore_defaults a minimum reserve of 7 %.
C22_CommandTable ==
    [][(call.pc > 0 /\ call'.pc = 0 /\ call'.out = "returned"
            /\ call.fn \in CommandNames) =>
        LET fn == call.fn
            W(reg, val) == WrittenValue(wlog', reg, val)
        IN  /\ Len(wlog') = (IF fn = "restore_defaults" THEN 4 ELSE 3)
            /\ fn = "restore_defaults" =>
                  W("mode", 0) /\ W("inw", 10000) /\ W("outw", 10000) /\ W("rsv", 700)
            /\ fn = "set_auto_mode" => W("mode", 0) /\ W("inw", 10000) /\ W("outw", 10000)
            /\ fn = "set_charge_mode" => W("mode", 1) /\ W("inw", 10000) /\ W("outw", 10000)
            /\ fn = "set_discharge_mode" =>
                  W("mode", 2) /\ W("inw", 10000) /\ W("outw", 10000)
            /\ fn = "set_charge_discharge_mode" =>
                  W("mode", 3) /\ W("inw", 10000) /\ W("outw", 10000)
            /\ fn = "set_grid_charge_mode" => W("mode", 2) /\ W("outw", 0)
            /\ fn = "set_grid_discharge_mode" => W("mode", 1) /\ W("inw", 0)
            /\ fn = "set_block_discharge_mode" =>
                  W("mode", 3) /\ W("inw", 10000) /\ W("outw", 0)
            /\ fn = "set_block_charge_mode" =>
                  W("mode", 3) /\ W("inw", 0) /\ W("outw", 10000)
            /\ fn = "set_calibrate_mode" =>
                  W("mode", 2) /\ W("inw", 10000) /\ W("outw", 55536)]_vars

\* C22 witness: set_calibrate_mode has returned and the device holds the
\* discharge rate -100 % as 55536.
C22_Witness ==
    /\ call.fn = "set_calibrate_mode" /\ call.pc = 0 /\ call.out = "returned"
    /\ dev.mode = 2 /\ dev.outw = 55536

\* C23: set_minimum_reserve below 5 % writes nothing and changes nothing; at
\* 5 % or more it writes the minimum-reserve register, once, with
\* percent * 100, and nothing else.
C23_MinimumReserve ==
    [][call'.fn = "set_minimum_reserve" =>
        LET r == call'.a[1]
        IN  /\ sto' = sto
            /\ storage_extended_control_mode' = storage_extended_control_mode
            /\ dev' \in {dev, [dev EXCEPT !.rsv = r * 100]}
            /\ IF r < 5 THEN wlog' = <<>> /\ dev' = dev
               ELSE wlog' = << <<"rsv", r * 100>> >>]_vars

\* C23 witness: a request of exactly 5 % has been written.
C23_Witness ==
    /\ call.fn = "set_minimum_reserve" /\ call.a = <<5>>
    /\ wlog = << <<"rsv", 500>> >>

\* C24: a change_settings that carries an unsupported mode writes no
\* register and leaves the limit fields of the store as they were.
C24_UnsupportedModeRejected ==
    [][(call.pc > 0 /\ call.fn = "change_settings"
            /\ call.a[1] \notin {0, 1, 2, 3}) =>
        wlog' = <<>> /\ sto' = sto /\ dev' = dev]_vars

\* A step that calls one of the two watt setters.
WattCall == call.fn = "none" /\ call'.fn \in {"set_charge_rate_w", "set_discharge_rate_w"}

\* A step that calls one of the two percentage setters.
PercentCall == call.fn = "none" /\ call'.fn \in {"set_charge_rate", "set_discharge_rate"}

\* C25: for every watt request w and maximum M > 0 a watt setter writes one
\* register, with a word in 0..65535 that read as a signed 16-bit number
\* lies in -10000..10000 and is, to the hundredth of a percent, the rate
\* clamp(w, -M, M) / M * 100.
C25_WattsClampedToWord ==
    [][WattCall =>
        LET num == call'.a[1]
            shift == call'.a[2]
            M == call'.a[3]
            clamped == IF num > M THEN M ELSE IF num < -M THEN -M ELSE num
            v == wlog'[1][2]
        IN  /\ Len(wlog') = 1
            /\ v \in 0..65535
            /\ ToInt16(v) \in -10000..10000
            /\ IF shift = 0
               THEN /\ (ToInt16(v) - 1) * M < clamped * 10000
                    /\ clamped * 10000 < (ToInt16(v) + 1) * M
               ELSE ToInt16(v) \in {-1, 0, 1}]_vars

\* C26: the word written for a percentage p in -100..100, read as a signed
\* 16-bit number, is p * 100.
C26_RateRoundTrip ==
    [][PercentCall =>
        /\ Len(wlog') = 1
        /\ wlog'[1][1] = (IF call'.fn = "set_charge_rate" THEN "inw" ELSE "outw")
        /\ wlog'[1][2] \in 0..65535
        /\ ToInt16(wlog'[1][2]) = call'.a[1] * 100]_vars

\* C26 witness: -50 % was written as 60536, which the device holds and the
\* storage decoder reads as -5000.
C26_Witness ==
    /\ call.fn = "set_charge_rate" /\ call.a = <<-50>>
    /\ dev.inw = 60536 /\ ToInt16(dev.inw) = -5000

\* A primary-meter decode that has derived a grid status.
MeterDecoded == call'.fn = "read_meter_data" /\ call'.out = "True"

\* C27: in the primary-meter decode an inverter frequency strictly between
\* 48 and 52 gives "grid-connected normal" whatever the meter frequency,
\* one strictly between 52 and 54 "over-frequency"; an inverter frequency
\* below 1 gives "island/backup" with a meter frequency above 48 and "no
\* connection" with a meter frequency below 1.
C27_GridStatus ==
    [][MeterDecoded =>
        LET i == sto'["line_frequency"]
            m == call'.a[1]
            g == sto'["grid_status"]
        IN  /\ i = sto["line_frequency"]
            /\ (i > 4800 /\ i < 5200) => g = "grid-connected normal"
            /\ (i > 5200 /\ i < 5400) => g = "over-frequency"
            /\ (i < 100 /\ m > 4800) => g = "island/backup"
            /\ (i < 100 /\ m < 100) => g = "no connection"]_vars

\* C27 witness: with the inverter at 0 Hz and the meter at 50 Hz the status
\* "island/backup" has been stored.
C27_Witness ==
    /\ call.fn = "read_meter_data" /\ call.a = <<5000, 1>> /\ call.out = "True"
    /\ sto["line_frequency"] = 0
    /\ sto["grid_status"] = "island/backup"

\* C28: for a combination of frequencies outside the four cases the
\* primary-meter decode stores an explicit undetermined status (not the
\* empty string, not one of the four labels) and logs an error.
C28_UndeterminedStatus ==
    [][MeterDecoded =>
        LET i == sto'["line_frequency"]
            m == call'.a[1]
            g == sto'["grid_status"]
            defined == \/ i > 4800 /\ i < 5200
                       \/ i > 5200 /\ i < 5400
                       \/ i < 100 /\ (m > 4800 \/ m < 100)
        IN  ~defined =>
              /\ g \notin {"", "grid-connected normal", "over-frequency",
                           "island/backup", "no connection"}
              /\ op'.fired = "error"]_vars

\* C29: an MPPT decode whose module count is not 4 leaves the store as it
\* was and returns no success, and leaves mppt_configured as it was: false
\* when the decode is the probe of init_data.
C29_MpptUnsupported ==
    [][(call'.fn = "read_mppt_data" /\ call'.a[1] # 4) =>
        /\ sto' = sto
        /\ call'.out # "True"
        /\ mppt_configured' = mppt_configured
        /\ phase = "constructed" => ~mppt_configured']_vars

\* C29 witness: init_data has probed a block with two modules and the hub
\* is ready without MPPT.
C29_Witness ==
    /\ phase = "ready" /\ ~mppt_configured
    /\ call.fn = "read_mppt_data" /\ call.a = <<2>> /\ call.out = "None"

\* C30: an init_data that leaves the inverter identity unread fails: the hub
\* does not become ready, no capability flag is set, and the identity read
\* is the only block read it has requested.
C30_IdentityFatal ==
    [][(phase = "constructed" /\ phase' # "constructed" /\ "i_" \notin data') =>
        /\ phase' = "failed"
        /\ ~meter_configured' /\ ~mppt_configured' /\ ~storage_configured'
        /\ data' = {}
        /\ call'.out = "raise" /\ call'.a = <<1>>]_vars

\* C30 witness: init_data has failed on the identity read with one meter
\* configured.
C30_Witness ==
    /\ phase = "failed" /\ meters = 1 /\ data = {}
    /\ call.fn = "init_data" /\ call.a = <<1>>

\* C31: a successful meter read of a cycle stores the frequency of the
\* meter at position n under the prefix m{n}_ and leaves the keys of every
\* other meter as they were, so the meters of a hub write disjoint keys.
C31_MeterKeysDisjoint ==
    [][MeterDecoded =>
        LET n == call'.a[2]
            key(i) == MeterPrefix(i) \o "line_frequency"
        IN  /\ ~Missing(sto', key(n))
            /\ sto'[key(n)] = call'.a[1]
            /\ \A i \in (1..meters) \ {n} :
                  /\ Missing(sto', key(i)) = Missing(sto, key(i))
                  /\ ~Missing(sto, key(i)) => sto'[key(i)] = sto[key(i)]]_vars

\* C32: no step of the hub (init_data, a step of a polling cycle whether
\* it succeeds or fails, a commanded operation, a subscribe or an
\* unsubscribe) removes a key from the store: the keys present before the
\* step are present after it.
C32_StoreNeverShrinks ==
    [][data \subseteq data' /\ DOMAIN sto \subseteq DOMAIN sto']_vars

\* C32 witness: a cycle that ran has returned False after the last
\* subscriber left, and the store still holds the identity and the
\* telemetry written before.
C32_Witness ==
    /\ \E j \in Jobs : job[j].pc = "ret" /\ job[j].how = "ran" /\ ~job[j].res
    /\ entities = <<>>
    /\ {"i_", ""} \subseteq data

\* C33: calculate_value returns None, and neither raises nor returns a
\* number (0 included), whenever the value or the scale factor is None, a
\* string or a boolean; it returns a number only when both are numbers.
C33_NonNumericIsNone ==
    [][call'.fn = "calculate_value" =>
        LET value == call'.a[1]
            sf == call'.a[2]
            NonNumeric(x) == x.t \in {"NoneType", "str", "bool"}
            Number(x) == x.t \in {"int", "float", "complex"}
        IN  /\ (NonNumeric(value) \/ NonNumeric(sf)) => call'.out = "None"
            /\ call'.out = "number" => (Number(value) /\ Number(sf))
            /\ sto' = sto /\ data' = data]_vars

\* C33 witness: calculate_value(True, 0) has returned None.
C33_Witness ==
    /\ call.fn = "calculate_value" /\ call.out = "None"
    /\ call.a = <<PyValue("bool", 1), PyValue("int", 0)>>

\* The labels of the bits of a set, in ascending bit order, joined by commas.
RECURSIVE JoinedLabels(_, _)
JoinedLabels(set, labels) ==
    IF set = {} THEN <<>>
    ELSE LET b == CHOOSE x \in set : \A y \in set : x <= y
             label == IF b + 1 \in DOMAIN labels THEN labels[b + 1]
                      ELSE <<"b", "i", "t", " ">> \o Digits(b) \o
                           <<" ", "u", "n", "d", "e", "f", "i", "n", "e", "d">>
         IN  IF set = {b} THEN label
             ELSE label \o <<",">> \o JoinedLabels(set \ {b}, labels)

\* C34: bitmask_to_string returns the caller's default when no bit below the
\* bit width is set, and otherwise the first max_length characters of the
\* comma-joined labels of the set bits below the bit width, in ascending bit
\* order, a set bit beyond the list shown as "bit N undefined"; 0b101 with
\* the labels A, B, C gives "A,C".
C34_BitmaskToString ==
    [][call'.fn = "bitmask_to_string" =>
        LET bitmask == call'.a[1]
            labels == call'.a[2]
            default == call'.a[3]
            max_length == call'.a[4]
            bits == call'.a[5]
            result == call'.opt[1]
            set == {b \in 0..(bits - 1) : (bitmask \div 2^b) % 2 = 1}
            full == JoinedLabels(set, labels)
        IN  /\ set = {} => result = default
            /\ set # {} =>
                 /\ Len(result) = (IF max_length < Len(full) THEN max_length
                                   ELSE Len(full))
                 /\ \A i \in 1..Len(result) : result[i] = full[i]
            /\ (bitmask = 5 /\ labels = << <<"A">>, <<"B">>, <<"C">> >>
                /\ bits >= 3 /\ max_length >= 3) => result = <<"A", ",", "C">>
            /\ sto' = sto /\ data' = data]_vars

\* C34 witness: 0b101 with the labels A, B, C and sixteen bits has given
\* "A,C".
C34_Witness ==
    /\ call.fn = "bitmask_to_string"
    /\ call.a = <<5, << <<"A">>, <<"B">>, <<"C">> >>, <<"N", "A">>, 255, 16>>
    /\ call.opt = << <<"A", ",", "C">> >>

\* C35: a decoder whose block read came back without registers returns
\* False (the cycle goes on with update_result False) and writes nothing:
\* the store, the cached control mode and the device registers are as
\* before, and no register write is issued or begun.
C35_FailsClosed ==
    [][\A j \in Jobs :
        (job[j].pc = "got" /\ job[j].rd # "ok" /\ job'[j].pc # "got") =>
            /\ job'[j] = NextDecoder(job[j], FALSE)
            /\ data' = data /\ sto' = sto
            /\ storage_extended_control_mode' = storage_extended_control_mode
            /\ dev' = dev /\ wlog' = wlog
            /\ job'[j].pc # "wrW"]_vars

\* C36: when the storage decoder runs next after a mode command, on the
\* registers as the command wrote them, the four limit fields hold after
\* the decode what the command stored in them.
C36_OptimisticAgreesWithDecode ==
    [][(op.name = "select" /\ op'.name = "decode") =>
        \A k \in {"discharge_limit", "charge_limit", "grid_charge_power",
                  "grid_discharge_power"} :
            sto'[k] = sto[k]]_vars

====
